---- MODULE Spec2Model ----
(***************************************************************************)
(* Boardside Chess Coach: the adaptive quiz engine (QuizEngine.ts), the    *)
(* archetype calculator (ArchetypeCalculator.ts) and their numeric         *)
(* behaviour, as a state machine.                                          *)
(***************************************************************************)
EXTENDS Integers, Sequences, FiniteSets, TLC

(***************************************************************************)
(* JavaScript numbers are IEEE-754 binary64.  calculateConfidence divides, *)
(* multiplies by 0.7 and 0.3, adds and multiplies by 100 in that format,   *)
(* each operation rounding to 53 significant bits (nearest, ties to even). *)
(* A non-negative double is modelled exactly as [m |-> M, e |-> E], the    *)
(* value M * 2^E, with M a natural number of at most 53 bits held as a     *)
(* little-endian sequence of Limbs digits in base LimbBase.                *)
(***************************************************************************)
LimbBits == 13

LimbBase == 2^LimbBits

Limbs == 10

MantissaBits == 53

LimbIdx == 1..Limbs

BigZero == [i \in LimbIdx |-> 0]

\* the natural number n < LimbBase^3 as a limb sequence
BigOfInt(n) ==
    [i \in LimbIdx |-> IF i = 1 THEN n % LimbBase
                       ELSE IF i = 2 THEN (n \div LimbBase) % LimbBase
                       ELSE IF i = 3 THEN n \div (LimbBase * LimbBase)
                       ELSE 0]

IsZeroBig(X) == \A i \in LimbIdx : X[i] = 0

\* carry propagation over column sums (each column below 2^31)
RECURSIVE CarryFrom(_, _, _)
CarryFrom(cols, i, carry) ==
    IF i > Limbs THEN << >>
    ELSE LET t == cols[i] + carry
         IN  << t % LimbBase >> \o CarryFrom(cols, i + 1, t \div LimbBase)

Normalize(cols) == CarryFrom(cols, 1, 0)

AddBig(X, Y) == Normalize([i \in LimbIdx |-> X[i] + Y[i]])

MulSmall(X, c) == Normalize([i \in LimbIdx |-> X[i] * c])

RECURSIVE ColumnSum(_, _, _, _)
ColumnSum(X, Y, k, i) ==
    IF i > k THEN 0
    ELSE X[i] * Y[k + 1 - i] + ColumnSum(X, Y, k, i + 1)

\* X * Y for X, Y below LimbBase^5, so that every column sum stays below 2^31
MulBig(X, Y) == Normalize([k \in LimbIdx |-> ColumnSum(X, Y, k, 1)])

\* number of significant bits of a digit below LimbBase
RECURSIVE DigitBits(_)
DigitBits(d) == IF d = 0 THEN 0 ELSE 1 + DigitBits(d \div 2)

RECURSIVE TopLimb(_, _)
TopLimb(X, i) == IF i = 0 THEN 0 ELSE IF X[i] # 0 THEN i ELSE TopLimb(X, i - 1)

BitLen(X) ==
    LET t == TopLimb(X, Limbs)
    IN  IF t = 0 THEN 0 ELSE LimbBits * (t - 1) + DigitBits(X[t])

\* bit b (counted from 0) of X
BitAt(X, b) == (X[(b \div LimbBits) + 1] \div (2 ^ (b % LimbBits))) % 2

\* some bit strictly below bit b of X is set
AnyBitBelow(X, b) ==
    \/ \E i \in LimbIdx : i < (b \div LimbBits) + 1 /\ X[i] # 0
    \/ X[(b \div LimbBits) + 1] % (2 ^ (b % LimbBits)) # 0

\* floor(X / 2^s)
ShiftRight(X, s) ==
    LET d == s \div LimbBits
        k == s % LimbBits
        L(i) == IF i + d \in LimbIdx THEN X[i + d] ELSE 0
    IN  [i \in LimbIdx |-> (L(i) \div (2 ^ k)) + (L(i + 1) % (2 ^ k)) * (2 ^ (LimbBits - k))]

\* X * 2^s
RECURSIVE ShiftLeft(_, _)
ShiftLeft(X, s) ==
    IF s = 0 THEN X
    ELSE IF s >= 12 THEN ShiftLeft(MulSmall(X, 2 ^ 12), s - 12)
    ELSE MulSmall(X, 2 ^ s)

\* quotient and remainder of X by the small divisor c (c * LimbBase < 2^31)
RECURSIVE DivSmallFrom(_, _, _, _)
DivSmallFrom(X, c, i, rem) ==
    IF i = 0 THEN [q |-> << >>, r |-> rem]
    ELSE LET t    == rem * LimbBase + X[i]
             rest == DivSmallFrom(X, c, i - 1, t % c)
         IN  [q |-> rest.q \o << t \div c >>, r |-> rest.r]

DivSmall(X, c) == DivSmallFrom(X, c, Limbs, 0)

\* round the exact value (M + sticky fraction) * 2^e to 53 bits, nearest, ties to even
RoundDouble(M, e, sticky) ==
    LET len == BitLen(M)
    IN  IF len <= MantissaBits THEN [m |-> M, e |-> e]
        ELSE LET s    == len - MantissaBits
                 q    == ShiftRight(M, s)
                 half == BitAt(M, s - 1) = 1
                 more == AnyBitBelow(M, s - 1) \/ sticky
                 up   == half /\ (more \/ q[1] % 2 = 1)
                 r    == IF up THEN AddBig(q, BigOfInt(1)) ELSE q
             IN  IF BitLen(r) > MantissaBits
                 THEN [m |-> ShiftRight(r, 1), e |-> e + s + 1]
                 ELSE [m |-> r, e |-> e + s]

FlZero == [m |-> BigZero, e |-> 0]

\* the double nearest to p / q, for naturals p < 2^13 and 0 < q < 2^13
FlDivInt(p, q) ==
    IF p = 0 THEN FlZero
    ELSE LET d == DivSmall(ShiftLeft(BigOfInt(p), 72), q)
         IN  RoundDouble(d.q, -72, d.r # 0)

FlMul(x, y) ==
    IF IsZeroBig(x.m) \/ IsZeroBig(y.m) THEN FlZero
    ELSE RoundDouble(MulBig(x.m, y.m), x.e + y.e, FALSE)

FlAdd(x, y) ==
    IF IsZeroBig(x.m) THEN y
    ELSE IF IsZeroBig(y.m) THEN x
    ELSE LET e == IF x.e < y.e THEN x.e ELSE y.e
         IN  RoundDouble(AddBig(ShiftLeft(x.m, x.e - e), ShiftLeft(y.m, y.e - e)),
                         e, FALSE)

\* x / 2: exact in binary floating point
FlHalf(x) == IF IsZeroBig(x.m) THEN x ELSE [m |-> x.m, e |-> x.e - 1]

FlOne == FlDivInt(1, 1)

\* x <= 1.0, for a double with a normalised 53-bit mantissa
FlLeqOne(x) ==
    \/ IsZeroBig(x.m)
    \/ BitLen(x.m) + x.e <= 0
    \/ (BitLen(x.m) + x.e = 1 /\ ~AnyBitBelow(x.m, BitLen(x.m) - 1))

\* no saturation: the value itself
FlNoSaturation(x) == x

\* Math.min(x, 1.0)
FlMinOne(x) == IF FlLeqOne(x) THEN x ELSE FlOne

\* Math.round(x) = floor(x + 0.5), for 0 <= x < 2^13 (so x.e < 0)
MathRound(x) ==
    IF IsZeroBig(x.m) THEN 0
    ELSE IF BitLen(x.m) + x.e < 0 THEN 0
    ELSE LET s == 0 - x.e
             f == ShiftRight(x.m, s)
         IN  f[1] + BitAt(x.m, s - 1)

(***************************************************************************)
(* types.ts: thresholds of the quiz.                                       *)
(***************************************************************************)
CONFIDENCE_THRESHOLD == 80

MINIMUM_QUESTIONS == 5

MAXIMUM_QUESTIONS == 10

Abs(x) == IF x < 0 THEN 0 - x ELSE x

(***************************************************************************)
(* ArchetypeCalculator.ts                                                  *)
(***************************************************************************)
\* determineArchetype with the dead zone closed at the threshold (<= for <)
determineArchetypeInclusive(scoreTF, scoreJP) ==
    IF Abs(scoreTF) <= 2 /\ Abs(scoreJP) <= 2 THEN "Neutral"
    ELSE IF scoreTF >= 0 /\ scoreJP >= 0 THEN "TJ"
    ELSE IF scoreTF >= 0 THEN "TP"
    ELSE IF scoreJP >= 0 THEN "FJ"
    ELSE "FP"

\* determineArchetype with a dead zone of width 0 (threshold 0 for 2)
determineArchetypeZeroThreshold(scoreTF, scoreJP) ==
    LET threshold  == 0
        isThinking == scoreTF >= 0
        isJudging  == scoreJP >= 0
    IN  IF Abs(scoreTF) < threshold /\ Abs(scoreJP) < threshold THEN "Neutral"
        ELSE IF isThinking /\ isJudging THEN "TJ"
        ELSE IF isThinking /\ ~isJudging THEN "TP"
        ELSE IF ~isThinking /\ isJudging THEN "FJ"
        ELSE "FP"

\* determineArchetype(scoreTF, scoreJP)
determineArchetype(scoreTF, scoreJP) ==
    LET threshold  == 2
        isThinking == scoreTF >= 0
        isJudging  == scoreJP >= 0
    IN  IF Abs(scoreTF) < threshold /\ Abs(scoreJP) < threshold THEN "Neutral"
        ELSE IF isThinking /\ isJudging THEN "TJ"
        ELSE IF isThinking /\ ~isJudging THEN "TP"
        ELSE IF ~isThinking /\ isJudging THEN "FJ"
        ELSE "FP"

\* lines 111-129 of calculateConfidence: the double arithmetic on the summed
\* magnitude Math.abs(scoreTF) + Math.abs(scoreJP) and the response count
confidenceOfMagnitude(magnitude, responseCount) ==
    LET avgMagnitude   == FlDivInt(magnitude, responseCount * 2)
        baseConfidence == FlMinOne(FlHalf(avgMagnitude))
        responseFactor == FlMinOne(FlDivInt(responseCount, 10))
        confidence     == FlAdd(FlMul(baseConfidence, FlDivInt(7, 10)),
                                FlMul(responseFactor, FlDivInt(3, 10)))
    IN  MathRound(FlMul(confidence, FlDivInt(100, 1)))

\* bounds of the totals and counts fed to the calculator on its own
MaxScore == 20

MaxCount == 11

\* confidenceOfMagnitude evaluated once over the magnitudes and counts in use
ConfidenceMemo ==
    [magnitude \in 0..(2 * MaxScore), responseCount \in 1..MaxCount |->
        confidenceOfMagnitude(magnitude, responseCount)]

\* calculateConfidence(scoreTF, scoreJP, responseCount)
calculateConfidence(scoreTF, scoreJP, responseCount) ==
    IF responseCount = 0 THEN 0
    ELSE ConfidenceMemo[Abs(scoreTF) + Abs(scoreJP), responseCount]

(***************************************************************************)
(* Question banks (types.ts Question / Answer).  MakeBank numbers the      *)
(* questions q1, q2, ... and the answers of question i  qia1, qia2, ...    *)
(* as the sample bank of the unit tests does, so answer ids are unique     *)
(* across the bank.                                                        *)
(***************************************************************************)
QuestionId(i) == "q" \o ToString(i)

AnswerId(i, k) == QuestionId(i) \o "a" \o ToString(k)

MakeBank(weights) ==
    [i \in 1..Len(weights) |->
        [id      |-> QuestionId(i),
         answers |-> [k \in 1..Len(weights[i]) |->
                        [id      |-> AnswerId(i, k),
                         scoreTF |-> weights[i][k][1],
                         scoreJP |-> weights[i][k][2]]]]]

Strong == <<2, 2>>

Unsure == <<0, 0>>

\* ten questions, each with a decisive (2,2) answer and an "I'm not sure"
\* (0,0) answer; the first three add an answer for each other quadrant
HostBank ==
    MakeBank(<< <<Strong, Unsure, <<-2, -2>> >>,
                <<Strong, Unsure, <<2, -2>> >>,
                <<Strong, Unsure, <<-2, 2>> >>,
                <<Strong, Unsure>>, <<Strong, Unsure>>, <<Strong, Unsure>>,
                <<Strong, Unsure>>, <<Strong, Unsure>>, <<Strong, Unsure>>,
                <<Strong, Unsure>> >>)

HostBanks == {HostBank}

VARIABLES
    bank,      \* QuizEngine.questions
    session,   \* QuizEngine.session
    last,      \* the most recent call on the engine and what it returned or threw
    calc,      \* arguments and results of the calculator functions called directly
    fresh,     \* a second engine over the same bank, fed the calls of a replay
    snapshot,  \* a value getSession() returned, in the hands of its caller
    page,      \* the state of pages/Quiz.tsx and the profile it writes
    storage,   \* localStorage under the profile key, and the last call on it
    viewer,    \* pages/GameViewer.tsx: its URL parameter and its MoveNavigator
    committed  \* history: the archetypes the engine has committed so far

vars == <<bank, session, last, calc, fresh, snapshot, page, storage, viewer,
          committed>>

(***************************************************************************)
(* QuizEngine.ts                                                           *)
(***************************************************************************)
\* initializeSession(): archetype is an optional field, absent at first
initializeSession ==
    [responses      |-> << >>,
     currentScoreTF |-> 0,
     currentScoreJP |-> 0,
     isComplete     |-> FALSE,
     archetype      |-> "undefined",
     confidence     |-> 0]

RECURSIVE FindIndexOrFirst(_, _, _)
\* a find that falls back to the first entry when no id matches
FindIndexOrFirst(items, id, i) ==
    IF i > Len(items) THEN 1
    ELSE IF items[i].id = id THEN i
    ELSE FindIndexOrFirst(items, id, i + 1)

RECURSIVE FindIndex(_, _, _)
\* Array.prototype.find over ids: index of the first entry with this id, 0 if none
FindIndex(items, id, i) ==
    IF i > Len(items) THEN 0
    ELSE IF items[i].id = id THEN i
    ELSE FindIndex(items, id, i + 1)

\* every answer of the bank, in the order buildAnswerLookup visits them
RECURSIVE AllAnswers(_, _)
AllAnswers(questions, i) ==
    IF i > Len(questions) THEN << >>
    ELSE questions[i].answers \o AllAnswers(questions, i + 1)

RECURSIVE LastIndex(_, _, _)
\* Map.set overwrites: the entry kept for an id is the last one set
LastIndex(items, id, i) ==
    IF i = 0 THEN 0
    ELSE IF items[i].id = id THEN i
    ELSE LastIndex(items, id, i - 1)

\* a lookup keyed by question.id instead of answer.id
buildAnswerLookupByQuestion(questions) ==
    [id \in {questions[i].id : i \in 1..Len(questions)} |->
        LET q == questions[LastIndex(questions, id, Len(questions))]
        IN  q.answers[Len(q.answers)]]

\* buildAnswerLookup(questions): answer id -> Answer
buildAnswerLookup(questions) ==
    LET all == AllAnswers(questions, 1)
    IN  [id \in {all[i].id : i \in 1..Len(all)} |-> all[LastIndex(all, id, Len(all))]]

RECURSIVE SumScores(_, _, _)
\* the loop of calculateArchetype: answers missing from the lookup add nothing
SumScores(responses, answerLookup, i) ==
    IF i > Len(responses) THEN [scoreTF |-> 0, scoreJP |-> 0]
    ELSE LET rest == SumScores(responses, answerLookup, i + 1)
             id   == responses[i].answerId
         IN  IF id \in DOMAIN answerLookup
             THEN [scoreTF |-> answerLookup[id].scoreTF + rest.scoreTF,
                   scoreJP |-> answerLookup[id].scoreJP + rest.scoreJP]
             ELSE rest

\* a calculateArchetype whose loop starts at the second response
calculateArchetypeSkippingFirst(responses, answerLookup) ==
    IF Len(responses) = 0
    THEN [archetype |-> "Neutral", confidence |-> 0, scoreTF |-> 0, scoreJP |-> 0]
    ELSE LET total == SumScores(responses, answerLookup, 2)
         IN  [archetype  |-> determineArchetype(total.scoreTF, total.scoreJP),
              confidence |-> calculateConfidence(total.scoreTF, total.scoreJP,
                                                 Len(responses)),
              scoreTF    |-> total.scoreTF,
              scoreJP    |-> total.scoreJP]

\* calculateArchetype(responses, answerLookup)
calculateArchetype(responses, answerLookup) ==
    IF Len(responses) = 0
    THEN [archetype |-> "Neutral", confidence |-> 0, scoreTF |-> 0, scoreJP |-> 0]
    ELSE LET total == SumScores(responses, answerLookup, 1)
         IN  [archetype  |-> determineArchetype(total.scoreTF, total.scoreJP),
              confidence |-> calculateConfidence(total.scoreTF, total.scoreJP,
                                                 Len(responses)),
              scoreTF    |-> total.scoreTF,
              scoreJP    |-> total.scoreJP]

\* shouldTerminateEarly with the minimum taken strictly (<= for <)
shouldTerminateEarlyAfterMinimum(s) ==
    IF Len(s.responses) <= MINIMUM_QUESTIONS THEN FALSE
    ELSE s.confidence >= CONFIDENCE_THRESHOLD

\* shouldTerminateEarly without the minimum number of questions
shouldTerminateEarlyNoMinimum(s) == s.confidence >= CONFIDENCE_THRESHOLD

\* shouldTerminateEarly(), as a function of the session it reads
shouldTerminateEarly(s) ==
    IF Len(s.responses) < MINIMUM_QUESTIONS THEN FALSE
    ELSE s.confidence >= CONFIDENCE_THRESHOLD

\* completeQuiz(), as the session it leaves
completeQuiz(s, questions) ==
    LET result == calculateArchetype(s.responses, buildAnswerLookup(questions))
    IN  [s EXCEPT !.isComplete = TRUE,
                  !.archetype  = result.archetype,
                  !.confidence = result.confidence]

\* the completion test without the early termination
shouldCompleteAtMaximumOnly(s) == Len(s.responses) >= MAXIMUM_QUESTIONS

\* the completion test one response late (> for >=)
shouldCompleteOffByOne(s) ==
    Len(s.responses) > MAXIMUM_QUESTIONS \/ shouldTerminateEarly(s)

\* the test that ends answerQuestion: the quiz completes at the maximum
\* number of responses or on early termination
shouldComplete(s) ==
    Len(s.responses) >= MAXIMUM_QUESTIONS \/ shouldTerminateEarly(s)

\* an answerQuestion body that clamps the running totals to -4..4
recordAnswerClamped(s, questions, question, answer) ==
    LET clamp(x) == IF x > 4 THEN 4 ELSE IF x < -4 THEN -4 ELSE x
        pushed == [s EXCEPT
                     !.responses      = Append(@, [questionId |-> question.id,
                                                   answerId   |-> answer.id]),
                     !.currentScoreTF = clamp(@ + answer.scoreTF),
                     !.currentScoreJP = clamp(@ + answer.scoreJP)]
        scored == [pushed EXCEPT
                     !.confidence = calculateConfidence(pushed.currentScoreTF,
                                                        pushed.currentScoreJP,
                                                        Len(pushed.responses))]
    IN  IF shouldComplete(scored) THEN completeQuiz(scored, questions) ELSE scored

\* an answerQuestion body that computes the confidence with the number of
\* responses before the push
recordAnswerStaleCount(s, questions, question, answer) ==
    LET pushed == [s EXCEPT
                     !.responses      = Append(@, [questionId |-> question.id,
                                                   answerId   |-> answer.id]),
                     !.currentScoreTF = @ + answer.scoreTF,
                     !.currentScoreJP = @ + answer.scoreJP]
        scored == [pushed EXCEPT
                     !.confidence = calculateConfidence(pushed.currentScoreTF,
                                                        pushed.currentScoreJP,
                                                        Len(s.responses))]
    IN  IF shouldComplete(scored) THEN completeQuiz(scored, questions) ELSE scored

\* an answerQuestion body that puts the new response in front (unshift for push)
recordAnswerInFront(s, questions, question, answer) ==
    LET pushed == [s EXCEPT
                     !.responses      = <<[questionId |-> question.id,
                                           answerId   |-> answer.id]>> \o @,
                     !.currentScoreTF = @ + answer.scoreTF,
                     !.currentScoreJP = @ + answer.scoreJP]
        scored == [pushed EXCEPT
                     !.confidence = calculateConfidence(pushed.currentScoreTF,
                                                        pushed.currentScoreJP,
                                                        Len(pushed.responses))]
    IN  IF shouldComplete(scored) THEN completeQuiz(scored, questions) ELSE scored

\* the session after the body of answerQuestion has accepted (question, answer)
\* (the timestamp of a response is Date.now(), which the engine never reads,
\* and is left out of the record)
recordAnswer(s, questions, question, answer) ==
    LET pushed == [s EXCEPT
                     !.responses      = Append(@, [questionId |-> question.id,
                                                   answerId   |-> answer.id]),
                     !.currentScoreTF = @ + answer.scoreTF,
                     !.currentScoreJP = @ + answer.scoreJP]
        scored == [pushed EXCEPT
                     !.confidence = calculateConfidence(pushed.currentScoreTF,
                                                        pushed.currentScoreJP,
                                                        Len(pushed.responses))]
    IN  IF shouldComplete(scored) THEN completeQuiz(scored, questions) ELSE scored

Call(op, questionId, answerId, outcome) ==
    [op |-> op, questionId |-> questionId, answerId |-> answerId, outcome |-> outcome]

\* the guards of answerQuestion without the isComplete guard
thrownWithoutCompleteGuard(s, questions, questionId, answerId) ==
    LET q == FindIndex(questions, questionId, 1)
    IN  IF q = 0 THEN "Question not found"
        ELSE IF FindIndex(questions[q].answers, answerId, 1) = 0 THEN "Answer not found"
        ELSE "ok"

\* the guards of answerQuestion, in order: the message of the Error thrown, or
\* "ok" when the call goes on to record the answer
thrown(s, questions, questionId, answerId) ==
    LET q == FindIndex(questions, questionId, 1)
    IN  IF s.isComplete THEN "Quiz is already complete"
        ELSE IF q = 0 THEN "Question not found"
        ELSE IF FindIndex(questions[q].answers, answerId, 1) = 0 THEN "Answer not found"
        ELSE "ok"

\* answerQuestion(questionId, answerId): records the answer, or throws and
\* leaves the session as it was
answerQuestion(questionId, answerId) ==
    LET outcome == thrown(session, bank, questionId, answerId)
        q       == FindIndex(bank, questionId, 1)
    IN  /\ session' = IF outcome = "ok"
                      THEN recordAnswer(session, bank, bank[q],
                               bank[q].answers[FindIndex(bank[q].answers, answerId, 1)])
                      ELSE session
        /\ last' = Call("answerQuestion", questionId, answerId, outcome)
        /\ UNCHANGED <<bank, calc>>

\* a search that takes the number of answered ids for the position reached
FirstUnansweredByCount(questions, answeredIds, i) ==
    IF Cardinality(answeredIds) >= Len(questions) THEN 0
    ELSE Cardinality(answeredIds) + 1

RECURSIVE FirstUnanswered(_, _, _)
\* questions.find((q) => !answeredIds.has(q.id)): its index, 0 if none
FirstUnanswered(questions, answeredIds, i) ==
    IF i > Len(questions) THEN 0
    ELSE IF questions[i].id \notin answeredIds THEN i
    ELSE FirstUnanswered(questions, answeredIds, i + 1)

AnsweredIds(s) == {s.responses[i].questionId : i \in 1..Len(s.responses)}

\* a getNextQuestion result that leaves out the isComplete test
nextQuestionIdIgnoringComplete(s, questions) ==
    IF ~s.isComplete /\ shouldTerminateEarly(s) THEN "undefined"
    ELSE LET i == FirstUnanswered(questions, AnsweredIds(s), 1)
         IN  IF i = 0 THEN "undefined" ELSE questions[i].id

\* what getNextQuestion() returns in session s: a question id, or "undefined"
nextQuestionId(s, questions) ==
    IF s.isComplete \/ shouldTerminateEarly(s) THEN "undefined"
    ELSE LET i == FirstUnanswered(questions, AnsweredIds(s), 1)
         IN  IF i = 0 THEN "undefined" ELSE questions[i].id

\* a getNextQuestion that looks for the next question without the early
\* termination test
getNextQuestionWithoutEarlyTest ==
    /\ session' = session
    /\ last' = Call("getNextQuestion",
                    IF session.isComplete THEN "undefined"
                    ELSE LET i == FirstUnanswered(bank, AnsweredIds(session), 1)
                         IN  IF i = 0 THEN "undefined" ELSE bank[i].id,
                    "", "returned")
    /\ UNCHANGED <<bank, calc>>

\* getNextQuestion(): may complete the quiz; the returned id is kept in last
getNextQuestion ==
    /\ session' = IF ~session.isComplete /\ shouldTerminateEarly(session)
                  THEN completeQuiz(session, bank)
                  ELSE session
    /\ last' = Call("getNextQuestion", nextQuestionId(session, bank), "", "returned")
    /\ UNCHANGED <<bank, calc>>

\* a call of the public shouldTerminateEarly()
callShouldTerminateEarly ==
    /\ last' = Call("shouldTerminateEarly", "", "",
                    IF shouldTerminateEarly(session) THEN "true" ELSE "false")
    /\ UNCHANGED <<bank, session, calc>>

\* a reset that only restarts a finished quiz
resetOnlyWhenComplete ==
    /\ session' = IF session.isComplete THEN initializeSession ELSE session
    /\ last' = Call("reset", "", "", "ok")
    /\ UNCHANGED <<bank, calc>>

\* a reset that clears the answers but keeps the running totals
resetKeepsScores ==
    /\ session' = [initializeSession EXCEPT
                      !.currentScoreTF = session.currentScoreTF,
                      !.currentScoreJP = session.currentScoreJP]
    /\ last' = Call("reset", "", "", "ok")
    /\ UNCHANGED <<bank, calc>>

\* a reset that clears the answers and the flag but keeps the archetype field
resetKeepsArchetype ==
    /\ session' = [initializeSession EXCEPT !.archetype = session.archetype]
    /\ last' = Call("reset", "", "", "ok")
    /\ UNCHANGED <<bank, calc>>

\* reset()
reset ==
    /\ session' = initializeSession
    /\ last' = Call("reset", "", "", "ok")
    /\ UNCHANGED <<bank, calc>>

\* a percentage of the minimum number of questions
progressOfMinimum(responseCount) ==
    MathRound(FlMul(FlDivInt(responseCount, MINIMUM_QUESTIONS), FlDivInt(100, 1)))

\* Math.round((responseCount / MAXIMUM_QUESTIONS) * 100)
progressOf(responseCount) ==
    MathRound(FlMul(FlDivInt(responseCount, MAXIMUM_QUESTIONS), FlDivInt(100, 1)))

ProgressMemo == [responseCount \in 0..MaxCount |-> progressOf(responseCount)]

\* getProgress()
getProgress == ProgressMemo[Len(session.responses)]

\* isComplete(), getArchetype(), getConfidence(), getResponseCount()
isComplete == session.isComplete

getArchetype == session.archetype

getConfidence == session.confidence

getResponseCount == Len(session.responses)

(***************************************************************************)
(* Callers of the engine.                                                  *)
(***************************************************************************)
NoCall == Call("constructor", "", "", "ok")

NoCalc == [op |-> "none", scoreTF |-> 0, scoreJP |-> 0, responseCount |-> 0,
           confidence |-> 0, archetype |-> "undefined"]

\* no second engine, no value handed out by getSession(), no page
NoFresh == [phase |-> "none", session |-> initializeSession, outcome |-> "ok"]

NoSnapshot == [held |-> FALSE, shared |-> FALSE, value |-> initializeSession]

NoProfile == [archetype |-> "null", confidence |-> 0]

NoPage == [mounted |-> FALSE, currentQuestion |-> "undefined", responses |-> << >>,
           isComplete |-> FALSE, result |-> NoProfile, profile |-> NoProfile]

\* JavaScript values read back from JSON: t is the typeof-level kind
\* ("null", "boolean", "number", "string", "object", "undefined"), s the text
\* of a string, n the value of a number, fields the properties of an object
Value(t, s, n) == [t |-> t, s |-> s, n |-> n, fields |-> << >>]

JSnull == Value("null", "", 0)

JSundefined == Value("undefined", "", 0)

\* localStorage.getItem of a key never set
NoItem == [present |-> FALSE, text |-> << >>]

\* a working, empty localStorage on which nothing has been called
\* (before is the entry as the last call found it)
NoStorage == [mode |-> "ok", item |-> NoItem, version |-> "null", op |-> "none",
              before |-> NoItem, returned |-> JSnull, raised |-> FALSE]

\* a JavaScript number that is an integer or NaN
Num(n) == [nan |-> FALSE, n |-> n]

NaN == [nan |-> TRUE, n |-> 0]

\* no game viewer on screen
\* (navigator is the navigator's currentPly, currentPly the page's own state)
NoViewer == [loaded |-> FALSE, moveCount |-> 0, moveParam |-> NoItem,
             before |-> Num(-1), navigator |-> Num(-1), currentPly |-> Num(-1),
             op |-> "none", argument |-> Num(-1), returned |-> "none"]

\* the parts of the state an engine used on its own leaves alone
EngineOnly ==
    /\ fresh = NoFresh
    /\ snapshot = NoSnapshot
    /\ page = NoPage
    /\ storage = NoStorage
    /\ viewer = NoViewer
    /\ committed = {}

\* ids no bank holds, as in the unit tests
Invalid == "invalid"

OtherQuestion(q) == IF q = 1 THEN Len(bank) ELSE 1

\* the answer ids a caller tries on bank question q: its own answers, an
\* unknown id and an id that belongs to another question
AnswerInputs(q) ==
    {bank[q].answers[k].id : k \in 1..Len(bank[q].answers)}
        \cup {Invalid, bank[OtherQuestion(q)].answers[1].id}

\* the host (pages/Quiz.tsx) answers the question getNextQuestion offers; once
\* the session is complete a caller can only retry a question of the bank
HostQuestions ==
    LET i == FirstUnanswered(bank, AnsweredIds(session), 1)
    IN  IF i # 0 THEN {i} ELSE IF session.isComplete THEN {1} ELSE {}

Init ==
    /\ bank \in HostBanks
    /\ session = initializeSession
    /\ last = NoCall
    /\ calc = NoCalc
    /\ EngineOnly

HostAnswers ==
    \E q \in HostQuestions : \E a \in AnswerInputs(q) : answerQuestion(bank[q].id, a)

UnknownQuestion ==
    answerQuestion(Invalid, bank[1].answers[1].id)

Next ==
    \/ HostAnswers /\ UNCHANGED <<fresh, snapshot, page, storage, viewer, committed>>
    \/ UnknownQuestion /\ UNCHANGED <<fresh, snapshot, page, storage, viewer, committed>>
    \/ getNextQuestion /\ UNCHANGED <<fresh, snapshot, page, storage, viewer, committed>>
    \/ callShouldTerminateEarly /\ UNCHANGED <<fresh, snapshot, page, storage, viewer, committed>>
    \/ reset /\ UNCHANGED <<fresh, snapshot, page, storage, viewer, committed>>

Spec == Init /\ [][Next]_vars

(***************************************************************************)
(* A caller that does not follow getNextQuestion: answerQuestion accepts   *)
(* any question of the bank at any time.  The banks are kept to two        *)
(* questions so that every order of calls up to completion is explored.    *)
(***************************************************************************)
FreeBanks ==
    {MakeBank(<< <<Strong>>, <<Unsure>> >>),
     MakeBank(<< << <<-2, -2>> >>, << <<2, -1>> >> >>)}

InitAnyOrder ==
    /\ bank \in FreeBanks
    /\ session = initializeSession
    /\ last = NoCall
    /\ calc = NoCalc
    /\ EngineOnly

AnyAnswers ==
    \E q \in 1..Len(bank) : \E a \in AnswerInputs(q) : answerQuestion(bank[q].id, a)

NextAnyOrder ==
    \/ AnyAnswers /\ UNCHANGED <<fresh, snapshot, page, storage, viewer, committed>>
    \/ UnknownQuestion /\ UNCHANGED <<fresh, snapshot, page, storage, viewer, committed>>
    \/ getNextQuestion /\ UNCHANGED <<fresh, snapshot, page, storage, viewer, committed>>
    \/ callShouldTerminateEarly /\ UNCHANGED <<fresh, snapshot, page, storage, viewer, committed>>
    \/ reset /\ UNCHANGED <<fresh, snapshot, page, storage, viewer, committed>>

SpecAnyOrder == InitAnyOrder /\ [][NextAnyOrder]_vars

(***************************************************************************)
(* Replay.  An engine is used in any way, then reset(); from there on every *)
(* answerQuestion call is also made on a second engine constructed over    *)
(* the same bank.  fresh.before keeps how the discarded session had ended. *)
(* The two engines stamp their responses with different Date.now() values; *)
(* the timestamp is never read and is not part of the modelled response.   *)
(***************************************************************************)
InitReplay ==
    /\ bank \in FreeBanks
    /\ session = initializeSession
    /\ last = NoCall
    /\ calc = NoCalc
    /\ fresh = [phase |-> "earlier", session |-> initializeSession,
                outcome |-> "ok", before |-> "undefined"]
    /\ snapshot = NoSnapshot
    /\ page = NoPage
    /\ storage = NoStorage
    /\ viewer = NoViewer
    /\ committed = {}

\* the earlier use of the engine
earlierCalls ==
    \/ fresh.phase = "earlier" /\ AnyAnswers /\ UNCHANGED fresh
    \/ fresh.phase = "earlier" /\ getNextQuestion /\ UNCHANGED fresh

\* reset() on the used engine, new QuizEngine(questions) for the second one
startReplay ==
    /\ fresh.phase = "earlier"
    /\ reset
    /\ fresh' = [phase |-> "replay", session |-> initializeSession,
                 outcome |-> "ok", before |-> session.archetype]

\* answerQuestion(questionId, answerId) on the second engine
freshAnswer(questionId, answerId) ==
    LET outcome == thrown(fresh.session, bank, questionId, answerId)
        q       == FindIndex(bank, questionId, 1)
    IN  fresh' = [fresh EXCEPT
                    !.session = IF outcome = "ok"
                                THEN recordAnswer(@, bank, bank[q],
                                         bank[q].answers[FindIndex(bank[q].answers,
                                                                   answerId, 1)])
                                ELSE @,
                    !.outcome = outcome]

\* the same call on both engines
replayAnswer ==
    /\ fresh.phase = "replay"
    /\ \E questionId \in {bank[i].id : i \in 1..Len(bank)} \cup {Invalid} :
         \E answerId \in {bank[1].answers[1].id, bank[2].answers[1].id, Invalid} :
            /\ answerQuestion(questionId, answerId)
            /\ freshAnswer(questionId, answerId)

NextReplay ==
    \/ earlierCalls /\ UNCHANGED <<snapshot, page, storage, viewer, committed>>
    \/ startReplay /\ UNCHANGED <<snapshot, page, storage, viewer, committed>>
    \/ replayAnswer /\ UNCHANGED <<snapshot, page, storage, viewer, committed>>

SpecReplay == InitReplay /\ [][NextReplay]_vars

(***************************************************************************)
(* A caller that keeps the value getSession() returned.  The value is       *)
(* { ...this.session }: a new object whose number, boolean and string      *)
(* fields are copies and whose responses field is the engine's own array   *)
(* until reset() gives the engine a new session object.  snapshot.shared   *)
(* says whether the two still hold the same array; snapshot.value is what  *)
(* the caller reads in the value it holds.                                 *)
(***************************************************************************)
CopyBanks == {MakeBank(<< <<Strong>> >>)}

InitCopy ==
    /\ bank \in CopyBanks
    /\ session = initializeSession
    /\ last = NoCall
    /\ calc = NoCalc
    /\ fresh = NoFresh
    /\ snapshot = NoSnapshot
    /\ page = NoPage
    /\ storage = NoStorage
    /\ viewer = NoViewer
    /\ committed = {}

\* getSession()
getSession ==
    /\ snapshot' = [held |-> TRUE, shared |-> TRUE, value |-> session]
    /\ last' = Call("getSession", "", "", "returned")
    /\ UNCHANGED <<bank, session, calc>>

\* the held value after the engine's array has become newResponses
seenThroughAlias(newResponses) ==
    IF snapshot.held /\ snapshot.shared
    THEN [snapshot EXCEPT !.value.responses = newResponses]
    ELSE snapshot

\* answerQuestion pushes onto the array the held value may share
answerWhileHeld ==
    /\ \E q \in 1..Len(bank) :
          answerQuestion(bank[q].id, bank[q].answers[1].id)
    /\ snapshot' = seenThroughAlias(session'.responses)

\* getNextQuestion writes isComplete, archetype and confidence of the engine's
\* own session object only
nextWhileHeld ==
    /\ getNextQuestion
    /\ UNCHANGED snapshot

\* reset replaces the engine's session object and array
resetWhileHeld ==
    /\ reset
    /\ snapshot' = [snapshot EXCEPT !.shared = FALSE]

\* the response a caller adds: a question of the bank, an answer id of no bank
StrayResponse == [questionId |-> bank[1].id, answerId |-> Invalid]

\* most responses a caller adds to one array
MaxPushed == 1

Pushed(responses) ==
    Cardinality({i \in 1..Len(responses) : responses[i] = StrayResponse})

\* the caller calls returned.responses.push(...)
pushOnReturned ==
    /\ snapshot.held
    /\ Pushed(snapshot.value.responses) < MaxPushed
    /\ Len(snapshot.value.responses) < MaxCount - 1
    /\ snapshot' = [snapshot EXCEPT !.value.responses = Append(@, StrayResponse)]
    /\ session' = IF snapshot.shared
                  THEN [session EXCEPT !.responses = Append(@, StrayResponse)]
                  ELSE session
    /\ last' = Call("returned.responses.push", StrayResponse.questionId,
                    StrayResponse.answerId, "ok")
    /\ UNCHANGED <<bank, calc>>

\* the caller assigns returned.confidence = 0
writeOnReturned ==
    /\ snapshot.held
    /\ snapshot' = [snapshot EXCEPT !.value.confidence = 0]
    /\ last' = Call("returned.confidence =", "", "", "ok")
    /\ UNCHANGED <<bank, session, calc>>

NextCopy ==
    \/ getSession /\ UNCHANGED <<fresh, page, storage, viewer, committed>>
    \/ answerWhileHeld /\ UNCHANGED <<fresh, page, storage, viewer, committed>>
    \/ nextWhileHeld /\ UNCHANGED <<fresh, page, storage, viewer, committed>>
    \/ resetWhileHeld /\ UNCHANGED <<fresh, page, storage, viewer, committed>>
    \/ pushOnReturned /\ UNCHANGED <<fresh, page, storage, viewer, committed>>
    \/ writeOnReturned /\ UNCHANGED <<fresh, page, storage, viewer, committed>>

SpecCopy == InitCopy /\ [][NextCopy]_vars

(***************************************************************************)
(* pages/Quiz.tsx.  The page owns one engine over the question data, keeps *)
(* its own list of responses, and on completion computes the result itself *)
(* and hands archetype and confidence to setArchetype of ArchetypeContext, *)
(* which keeps them in page.profile here.  Leaving or reloading the page   *)
(* discards the component and its engine; the profile stays.               *)
(***************************************************************************)
\* the three early returns of the component, in order
pageShowsGate ==
    page.profile.archetype # "null" /\ ~page.isComplete /\ Len(page.responses) = 0

pageShowsResult ==
    ~pageShowsGate /\ page.isComplete /\ page.result.archetype # "null"

pageShowsQuestion ==
    /\ page.mounted
    /\ ~pageShowsGate
    /\ ~pageShowsResult
    /\ page.currentQuestion # "undefined"

InitPage ==
    /\ bank \in HostBanks
    /\ session = initializeSession
    /\ last = NoCall
    /\ calc = NoCalc
    /\ fresh = NoFresh
    /\ snapshot = NoSnapshot
    /\ page = NoPage
    /\ storage = NoStorage
    /\ viewer = NoViewer
    /\ committed = {}

\* first render and the mount effect: getNextQuestion() on the new engine
pageMount ==
    /\ ~page.mounted
    /\ session = initializeSession
    /\ getNextQuestion
    /\ page' = [page EXCEPT !.mounted = TRUE,
                            !.currentQuestion = nextQuestionId(session, bank)]

\* a completeQuiz that reads the responses state of the render (without the
\* answer just given) instead of its argument
pageResultOfStaleResponses(finalResponses) ==
    LET r == calculateArchetype(page.responses, buildAnswerLookup(bank))
    IN  [archetype |-> r.archetype, confidence |-> r.confidence]

\* completeQuiz(finalResponses) of the page: what it hands to setArchetype
pageResult(finalResponses) ==
    LET r == calculateArchetype(finalResponses, buildAnswerLookup(bank))
    IN  [archetype |-> r.archetype, confidence |-> r.confidence]

\* the page after its completeQuiz(finalResponses)
pageCompleted(finalResponses) ==
    [page EXCEPT !.responses  = finalResponses,
                 !.isComplete = TRUE,
                 !.result     = pageResult(finalResponses),
                 !.profile    = pageResult(finalResponses)]

\* handleAnswer(answer), answer being the k-th answer of the current question:
\* answerQuestion, then shouldTerminateEarly, then getNextQuestion on the
\* engine as answerQuestion left it
handleAnswer(k) ==
    LET q            == FindIndex(bank, page.currentQuestion, 1)
        answer       == bank[q].answers[k]
        newResponses == Append(page.responses,
                               [questionId |-> bank[q].id, answerId |-> answer.id])
        outcome      == thrown(session, bank, bank[q].id, answer.id)
    IN  /\ pageShowsQuestion
        /\ session' = IF outcome = "ok"
                      THEN recordAnswer(session, bank, bank[q], answer)
                      ELSE session
        /\ IF outcome # "ok"
           THEN /\ last' = Call("answerQuestion", bank[q].id, answer.id, outcome)
                /\ page' = [page EXCEPT !.responses = newResponses]
           ELSE IF shouldTerminateEarly(session')
           THEN /\ last' = Call("shouldTerminateEarly", "", "", "true")
                /\ page' = pageCompleted(newResponses)
           ELSE /\ last' = Call("getNextQuestion", nextQuestionId(session', bank),
                                "", "returned")
                /\ page' = IF last'.questionId # "undefined"
                           THEN [page EXCEPT !.responses = newResponses,
                                             !.currentQuestion = last'.questionId]
                           ELSE pageCompleted(newResponses)
        /\ UNCHANGED <<bank, calc>>

pageAnswers ==
    \E k \in 1..3 :
        /\ pageShowsQuestion
        /\ k <= Len(bank[FindIndex(bank, page.currentQuestion, 1)].answers)
        /\ handleAnswer(k)

\* the component is discarded; a later visit builds a new one with a new engine
pageDiscarded(profile) ==
    /\ page' = [NoPage EXCEPT !.profile = profile]
    /\ session' = initializeSession
    /\ last' = NoCall
    /\ UNCHANGED <<bank, calc>>

\* handleSkipQuiz: setArchetype('Neutral', 50), then navigate('/')
handleSkipQuiz ==
    /\ pageShowsQuestion
    /\ pageDiscarded([archetype |-> "Neutral", confidence |-> 50])

\* handleRetakeQuiz (window.location.reload) and handleReturnHome (navigate)
handleRetakeQuiz ==
    /\ page.mounted
    /\ pageShowsGate \/ pageShowsResult
    /\ pageDiscarded(page.profile)

NextPage ==
    \/ pageMount /\ UNCHANGED <<fresh, snapshot, storage, viewer, committed>>
    \/ pageAnswers /\ UNCHANGED <<fresh, snapshot, storage, viewer, committed>>
    \/ handleSkipQuiz /\ UNCHANGED <<fresh, snapshot, storage, viewer, committed>>
    \/ handleRetakeQuiz /\ UNCHANGED <<fresh, snapshot, storage, viewer, committed>>

SpecPage == InitPage /\ [][NextPage]_vars

(***************************************************************************)
(* Sittings.  A host takes the quiz again and again on one engine: it      *)
(* answers the questions in bank order, each with one of the question's    *)
(* own answers, and calls reset() once the session is complete.  committed *)
(* collects the archetypes the sittings ended with.                        *)
(***************************************************************************)
InitSittings ==
    /\ bank \in HostBanks
    /\ session = initializeSession
    /\ last = NoCall
    /\ calc = NoCalc
    /\ fresh = NoFresh
    /\ snapshot = NoSnapshot
    /\ page = NoPage
    /\ storage = NoStorage
    /\ viewer = NoViewer
    /\ committed = {}

sittingAnswer ==
    /\ ~session.isComplete
    /\ \E q \in HostQuestions : \E k \in 1..Len(bank[q].answers) :
          answerQuestion(bank[q].id, bank[q].answers[k].id)
    /\ committed' = IF session'.isComplete
                    THEN committed \cup {session'.archetype}
                    ELSE committed

sittingReset ==
    /\ session.isComplete
    /\ reset
    /\ UNCHANGED committed

NextSittings ==
    \/ sittingAnswer /\ UNCHANGED <<fresh, snapshot, page, storage, viewer>>
    \/ sittingReset /\ UNCHANGED <<fresh, snapshot, page, storage, viewer>>

SpecSittings == InitSittings /\ [][NextSittings]_vars

(***************************************************************************)
(* The host loop.  A host asks getNextQuestion() and answers the question  *)
(* it is given with one of that question's answers, until no question is   *)
(* given.  The banks pass the checks of the data validation suite on the   *)
(* number of questions (5 to 15) and on the ids; FiveBank also has the     *)
(* five answers per question of the shipped data, the longer banks keep    *)
(* two of the five.                                                        *)
(***************************************************************************)
Choices == <<Strong, <<2, -2>>, <<-2, 2>>, <<-2, -2>>, Unsure>>

FiveBank == MakeBank(<<Choices, Choices, Choices, Choices, Choices>>)

ElevenBank ==
    MakeBank(<< <<Strong, Unsure>>, <<Strong, Unsure>>, <<Strong, Unsure>>,
                <<Strong, Unsure>>, <<Strong, Unsure>>, <<Strong, Unsure>>,
                <<Strong, Unsure>>, <<Strong, Unsure>>, <<Strong, Unsure>>,
                <<Strong, Unsure>>, <<Strong, Unsure>> >>)

LoopBanks == {FiveBank, HostBank, ElevenBank}

InitHostLoop ==
    /\ bank \in LoopBanks
    /\ session = initializeSession
    /\ last = NoCall
    /\ calc = NoCalc
    /\ EngineOnly

\* the host asks for the next question
hostAsks ==
    /\ last.op \in {"constructor", "answerQuestion"}
    /\ getNextQuestion

\* the host answers the question it was given with one of its answers
hostAnswersGiven ==
    /\ last.op = "getNextQuestion"
    /\ last.questionId # "undefined"
    /\ LET q == FindIndex(bank, last.questionId, 1)
       IN  \E k \in 1..Len(bank[q].answers) :
              answerQuestion(bank[q].id, bank[q].answers[k].id)

NextHostLoop ==
    \/ hostAsks /\ UNCHANGED <<fresh, snapshot, page, storage, viewer, committed>>
    \/ hostAnswersGiven /\ UNCHANGED <<fresh, snapshot, page, storage, viewer, committed>>

SpecHostLoop == InitHostLoop /\ [][NextHostLoop]_vars

(***************************************************************************)
(* Banks outside the data contract.  The constructor stores the array it   *)
(* is given and builds the answer lookup; it has no throw statement, so    *)
(* every array of questions yields an engine.                              *)
(***************************************************************************)
AnswerOf(id, scoreTF, scoreJP) == [id |-> id, scoreTF |-> scoreTF, scoreJP |-> scoreJP]

QuestionOf(id, answers) == [id |-> id, answers |-> answers]

\* two questions with the id q1
DuplicateQuestionBank ==
    <<QuestionOf("q1", <<AnswerOf("q1a1", 2, 2)>>),
      QuestionOf("q1", <<AnswerOf("q1a2", -2, -2)>>)>>

\* the answer id q1a1 under both questions, with different weights
DuplicateAnswerBank ==
    <<QuestionOf("q1", <<AnswerOf("q1a1", 2, 2)>>),
      QuestionOf("q2", <<AnswerOf("q1a1", 0, 0)>>)>>

\* a weight of 3
OutOfRangeBank ==
    <<QuestionOf("q1", <<AnswerOf("q1a1", 3, 0)>>),
      QuestionOf("q2", <<AnswerOf("q2a1", 0, 0)>>)>>

AnyBanks == {DuplicateQuestionBank, DuplicateAnswerBank, OutOfRangeBank}

InitAnyBank ==
    /\ bank \in AnyBanks
    /\ session = initializeSession
    /\ last = NoCall
    /\ calc = NoCalc
    /\ EngineOnly

NextAnyBank ==
    \/ AnyAnswers /\ UNCHANGED <<fresh, snapshot, page, storage, viewer, committed>>
    \/ UnknownQuestion /\ UNCHANGED <<fresh, snapshot, page, storage, viewer, committed>>
    \/ getNextQuestion /\ UNCHANGED <<fresh, snapshot, page, storage, viewer, committed>>
    \/ callShouldTerminateEarly /\ UNCHANGED <<fresh, snapshot, page, storage, viewer, committed>>
    \/ reset /\ UNCHANGED <<fresh, snapshot, page, storage, viewer, committed>>

SpecAnyBank == InitAnyBank /\ [][NextAnyBank]_vars

(***************************************************************************)
(* The calculator functions called on their own, on every pair of totals   *)
(* in -MaxScore..MaxScore and every response count in 0..MaxCount.         *)
(***************************************************************************)
InitCalc ==
    /\ bank = HostBank
    /\ session = initializeSession
    /\ last = NoCall
    /\ EngineOnly
    /\ \E tf \in (0 - MaxScore)..MaxScore, jp \in (0 - MaxScore)..MaxScore,
          n \in 0..MaxCount :
            calc = [NoCalc EXCEPT !.op = "arguments", !.scoreTF = tf,
                                  !.scoreJP = jp, !.responseCount = n]

callCalculateConfidence ==
    /\ calc.op = "arguments"
    /\ calc' = [calc EXCEPT !.op = "calculateConfidence",
                            !.confidence = calculateConfidence(calc.scoreTF,
                                               calc.scoreJP, calc.responseCount)]
    /\ UNCHANGED <<bank, session, last, fresh, snapshot, page, storage, viewer, committed>>

callDetermineArchetype ==
    /\ calc.op = "arguments"
    /\ calc' = [calc EXCEPT !.op = "determineArchetype",
                            !.archetype = determineArchetype(calc.scoreTF,
                                                             calc.scoreJP)]
    /\ UNCHANGED <<bank, session, last, fresh, snapshot, page, storage, viewer, committed>>

NextCalc ==
    \/ callCalculateConfidence
    \/ callDetermineArchetype

SpecCalc == InitCalc /\ [][NextCalc]_vars

(***************************************************************************)
(* domain/utils/localStorage.ts.  The entry under the profile key is a     *)
(* text, held here as the sequence of tokens a JSON reader takes from it.  *)
(* storage.mode is the browser's side: "ok", "full" (setItem throws a      *)
(* QuotaExceededError, reads and removals work) or "denied" (every access  *)
(* to localStorage throws).                                                *)
(***************************************************************************)
Punct(s) == [k |-> "punct", s |-> s, n |-> 0]

Str(s) == [k |-> "string", s |-> s, n |-> 0]

Numeral(n) == [k |-> "number", s |-> "", n |-> n]

\* a run of letters outside quotes: null, true, false or anything else
Word(s) == [k |-> "word", s |-> s, n |-> 0]

APP_VERSION == "1.0.0"

\* JSON.stringify(profile) of a PlayerProfile
JSONstringify(profile) ==
    <<Punct("{"), Str("archetype"), Punct(":"), Str(profile.archetype), Punct(","),
      Str("confidence"), Punct(":"), Numeral(profile.confidence), Punct(","),
      Str("determinedAt"), Punct(":"), Numeral(profile.determinedAt), Punct("}")>>

\* a token that is a JSON value on its own
IsScalar(token) ==
    \/ token.k \in {"string", "number"}
    \/ token.k = "word" /\ token.s \in {"null", "true", "false"}

ScalarOf(token) ==
    IF token.k = "string" THEN Value("string", token.s, 0)
    ELSE IF token.k = "number" THEN Value("number", "", token.n)
    ELSE IF token.s = "null" THEN JSnull
    ELSE Value("boolean", token.s, 0)

RECURSIVE ParseMembers(_, _, _)
\* the members of an object from token i on: "key" : value, then , or the
\* closing brace at the end of the text; a repeated key keeps its last value
ParseMembers(text, i, fields) ==
    IF i + 3 > Len(text) THEN [ok |-> FALSE, fields |-> fields]
    ELSE IF ~(text[i].k = "string" /\ text[i + 1] = Punct(":") /\ IsScalar(text[i + 2]))
         THEN [ok |-> FALSE, fields |-> fields]
    ELSE LET added == (text[i].s :> ScalarOf(text[i + 2])) @@ fields
         IN  IF text[i + 3] = Punct("}")
             THEN [ok |-> i + 3 = Len(text), fields |-> added]
             ELSE IF text[i + 3] = Punct(",") THEN ParseMembers(text, i + 4, added)
             ELSE [ok |-> FALSE, fields |-> added]

\* JSON.parse(text) for a scalar or an object of scalars: ok is FALSE where
\* it throws a SyntaxError
JSONparse(text) ==
    IF Len(text) = 0 THEN [ok |-> FALSE, value |-> JSundefined]
    ELSE IF Len(text) = 1
         THEN IF IsScalar(text[1]) THEN [ok |-> TRUE, value |-> ScalarOf(text[1])]
              ELSE [ok |-> FALSE, value |-> JSundefined]
    ELSE IF text[1] # Punct("{") THEN [ok |-> FALSE, value |-> JSundefined]
    ELSE IF Len(text) = 2
         THEN [ok |-> text[2] = Punct("}"),
               value |-> [Value("object", "", 0) EXCEPT !.fields = << >>]]
    ELSE LET members == ParseMembers(text, 2, << >>)
         IN  [ok |-> members.ok,
              value |-> [Value("object", "", 0) EXCEPT !.fields = members.fields]]

\* p.key of a parsed value: undefined when the object has no such property
Property(p, key) ==
    IF key \in DOMAIN p.fields THEN p.fields[key] ELSE JSundefined

\* !v for a value read from JSON
Falsy(v) ==
    \/ v.t \in {"null", "undefined"}
    \/ v.t = "boolean" /\ v.s = "false"
    \/ v.t = "number" /\ v.n = 0
    \/ v.t = "string" /\ v.s = ""

\* an isValidPlayerProfile that does not check the archetype against the list
isValidPlayerProfileAnyArchetype(profile) ==
    IF Falsy(profile) \/ profile.t # "object" THEN FALSE
    ELSE IF Falsy(Property(profile, "archetype"))
              \/ Property(profile, "archetype").t # "string" THEN FALSE
    ELSE IF Property(profile, "determinedAt").t # "number" THEN FALSE
    ELSE IF Property(profile, "confidence").t # "number" THEN FALSE
    ELSE TRUE

\* isValidPlayerProfile(profile); a number read from JSON is never NaN
isValidPlayerProfile(profile) ==
    IF Falsy(profile) \/ profile.t # "object" THEN FALSE
    ELSE IF Falsy(Property(profile, "archetype"))
              \/ Property(profile, "archetype").t # "string" THEN FALSE
    ELSE IF Property(profile, "determinedAt").t # "number" THEN FALSE
    ELSE IF Property(profile, "confidence").t # "number" THEN FALSE
    ELSE IF Property(profile, "archetype").s \notin {"TJ", "TP", "FJ", "FP", "Neutral"}
         THEN FALSE
    ELSE TRUE

\* the entry after clearPlayerProfile(): removeItem, its exception swallowed
removedItem(st) == IF st.mode = "denied" THEN st.item ELSE NoItem

\* the try block of loadPlayerProfile: whether it threw, what it returned and
\* the entry it left
loadBody(st) ==
    IF st.mode = "denied"
    THEN [threw |-> TRUE, returned |-> JSnull, item |-> st.item]
    ELSE IF ~st.item.present \/ st.item.text = << >>
    THEN [threw |-> FALSE, returned |-> JSnull, item |-> st.item]
    ELSE LET profile == JSONparse(st.item.text)
         IN  IF ~profile.ok
             THEN [threw |-> TRUE, returned |-> JSnull, item |-> st.item]
             ELSE IF ~isValidPlayerProfile(profile.value)
             THEN [threw |-> FALSE, returned |-> JSnull, item |-> removedItem(st)]
             ELSE [threw |-> FALSE, returned |-> profile.value, item |-> st.item]

\* loadPlayerProfile(): the catch clears the entry and returns null
loadPlayerProfile ==
    /\ storage' = LET body == loadBody(storage)
                  IN  [storage EXCEPT
                         !.op       = "loadPlayerProfile",
                         !.before   = storage.item,
                         !.item     = IF body.threw THEN removedItem(storage)
                                      ELSE body.item,
                         !.returned = IF body.threw THEN JSnull ELSE body.returned,
                         !.raised   = FALSE]
    /\ UNCHANGED <<bank, session, last, calc, fresh, snapshot, page, viewer, committed>>

\* savePlayerProfile(profile): true when both setItem calls went through
savePlayerProfile(profile) ==
    /\ storage' = IF storage.mode = "ok"
                  THEN [storage EXCEPT
                          !.op       = "savePlayerProfile",
                          !.before   = storage.item,
                          !.item     = [present |-> TRUE, text |-> JSONstringify(profile)],
                          !.version  = APP_VERSION,
                          !.returned = Value("boolean", "true", 0),
                          !.raised   = FALSE]
                  ELSE [storage EXCEPT
                          !.op       = "savePlayerProfile",
                          !.before   = storage.item,
                          !.returned = Value("boolean", "false", 0),
                          !.raised   = FALSE]
    /\ UNCHANGED <<bank, session, last, calc, fresh, snapshot, page, viewer, committed>>

\* clearPlayerProfile()
clearPlayerProfile ==
    /\ storage' = [storage EXCEPT !.op       = "clearPlayerProfile",
                                  !.before   = storage.item,
                                  !.item     = removedItem(storage),
                                  !.returned = JSundefined,
                                  !.raised   = FALSE]
    /\ UNCHANGED <<bank, session, last, calc, fresh, snapshot, page, viewer, committed>>

\* a caller saves a profile as setArchetype and updatePlayerArchetype build it,
\* determinedAt being Date.now()
saveSomeProfile ==
    \E archetype \in {"TJ", "TP", "FJ", "FP", "Neutral"}, confidence \in {0, 85},
       now \in {1, 2} :
        savePlayerProfile([archetype |-> archetype, confidence |-> confidence,
                           determinedAt |-> now])

\* what the entry may hold when the application starts: texts of the unit
\* tests, texts cut short, JSON of other shapes, and saved profiles
Object(members) == <<Punct("{")>> \o members \o <<Punct("}")>>

Member(key, token) == <<Str(key), Punct(":"), token>>

Comma == <<Punct(",")>>

UnparsableTexts ==
    {<<Word("corrupted")>>,
     <<Word("corrupted"), Word("json")>>,
     <<Punct("{")>> \o Member("archetype", Str("FP")) \o Comma
         \o Member("determinedAt", Numeral(1)) \o Comma
         \o Member("confidence", Numeral(85)),
     <<Punct("{"), Punct("}"), Punct("}")>>}

NotAnObjectTexts == {<<Word("null")>>, <<Numeral(85)>>, <<Str("TJ")>>, <<Word("true")>>}

BadArchetypeTexts ==
    {Object(Member("archetype", a) \o Comma \o Member("determinedAt", Numeral(1))
               \o Comma \o Member("confidence", Numeral(80))) :
        a \in {Str("INVALID"), Str(""), Str("tj"), Numeral(5), Word("null")}}
    \cup {Object(Member("determinedAt", Numeral(1)) \o Comma
                    \o Member("confidence", Numeral(80))),
          Object(<< >>)}

NonNumericTexts ==
    {Object(Member("archetype", Str("TJ"))),
     Object(Member("archetype", Str("TJ")) \o Comma
               \o Member("determinedAt", Numeral(1)) \o Comma
               \o Member("confidence", Str("85"))),
     Object(Member("archetype", Str("TJ")) \o Comma
               \o Member("determinedAt", Word("null")) \o Comma
               \o Member("confidence", Numeral(85))),
     Object(Member("archetype", Str("Neutral")) \o Comma
               \o Member("determinedAt", Str("yesterday")) \o Comma
               \o Member("confidence", Numeral(50)))}

ProfileTexts ==
    {JSONstringify([archetype |-> "TJ", confidence |-> 85, determinedAt |-> 1]),
     Object(Member("determinedAt", Numeral(0)) \o Comma
               \o Member("archetype", Str("INVALID")) \o Comma
               \o Member("confidence", Numeral(0)) \o Comma
               \o Member("archetype", Str("FP")) \o Comma
               \o Member("extra", Word("true")))}

StoredTexts ==
    UnparsableTexts \cup NotAnObjectTexts \cup BadArchetypeTexts
        \cup NonNumericTexts \cup ProfileTexts \cup {<< >>}

InitStorage ==
    /\ bank = HostBank
    /\ session = initializeSession
    /\ last = NoCall
    /\ calc = NoCalc
    /\ fresh = NoFresh
    /\ snapshot = NoSnapshot
    /\ page = NoPage
    /\ viewer = NoViewer
    /\ committed = {}
    /\ \E mode \in {"ok", "full", "denied"} :
         \E item \in {NoItem} \cup {[present |-> TRUE, text |-> t] : t \in StoredTexts} :
            storage = [NoStorage EXCEPT !.mode = mode, !.item = item]

NextStorage ==
    \/ loadPlayerProfile
    \/ saveSomeProfile
    \/ clearPlayerProfile

SpecStorage == InitStorage /\ [][NextStorage]_vars

(***************************************************************************)
(* domain/chess/MoveNavigator.ts.  The current ply is a JavaScript number: *)
(* an integer here, or NaN, with which every comparison is false.  The     *)
(* game enters only through getMoveCount().                                *)
(***************************************************************************)
\* a < b, a >= b, a > b and a === b on numbers
NumLt(a, b) == ~a.nan /\ ~b.nan /\ a.n < b.n

NumGeq(a, b) == ~a.nan /\ ~b.nan /\ a.n >= b.n

NumGt(a, b) == ~a.nan /\ ~b.nan /\ a.n > b.n

NumEq(a, b) == ~a.nan /\ ~b.nan /\ a.n = b.n

\* a + d
NumPlus(a, d) == IF a.nan THEN NaN ELSE Num(a.n + d)

\* next() with the bound test one ply late (> for >=)
navigatorNextPastEnd(currentPly, moveCount) ==
    LET maxPly == Num(moveCount - 1)
    IN  IF NumGt(currentPly, maxPly)
        THEN [currentPly |-> currentPly, returned |-> FALSE]
        ELSE [currentPly |-> NumPlus(currentPly, 1), returned |-> TRUE]

\* next(): the ply it leaves and the value it returns
navigatorNext(currentPly, moveCount) ==
    LET maxPly == Num(moveCount - 1)
    IN  IF NumGeq(currentPly, maxPly)
        THEN [currentPly |-> currentPly, returned |-> FALSE]
        ELSE [currentPly |-> NumPlus(currentPly, 1), returned |-> TRUE]

\* previous()
navigatorPrevious(currentPly, moveCount) ==
    IF NumLt(currentPly, Num(0))
    THEN [currentPly |-> currentPly, returned |-> FALSE]
    ELSE [currentPly |-> NumPlus(currentPly, -1), returned |-> TRUE]

\* first()
navigatorFirst(currentPly, moveCount) ==
    IF NumEq(currentPly, Num(-1))
    THEN [currentPly |-> currentPly, returned |-> FALSE]
    ELSE [currentPly |-> Num(-1), returned |-> TRUE]

\* last()
navigatorLast(currentPly, moveCount) ==
    LET maxPly == Num(moveCount - 1)
    IN  IF NumEq(currentPly, maxPly)
        THEN [currentPly |-> currentPly, returned |-> FALSE]
        ELSE [currentPly |-> maxPly, returned |-> TRUE]

\* goToMove(ply)
navigatorGoToMove(currentPly, moveCount, ply) ==
    LET maxPly == Num(moveCount - 1)
    IN  IF NumLt(ply, Num(-1)) \/ NumGt(ply, maxPly)
        THEN [currentPly |-> currentPly, returned |-> FALSE]
        ELSE [currentPly |-> ply, returned |-> TRUE]

\* reset()
navigatorReset(currentPly, moveCount) ==
    [currentPly |-> Num(-1), returned |-> FALSE]

\* the number of plies of TEST_PGN (1. e4 e5 2. Nf3 Nc6 3. Bb5 a6)
TestMoveCount == 6

\* games navigated: the test game and a game without moves
MoveCounts == {0, TestMoveCount}

\* how far beyond the two ends of the game the arguments tried reach
MaxBeyond == 3

PlyArguments(moveCount) == (-1 - MaxBeyond)..(moveCount - 1 + MaxBeyond)

\* the state after a call on the navigator
called(op, argument, result) ==
    [viewer EXCEPT !.op = op, !.argument = argument,
                   !.before    = viewer.navigator,
                   !.navigator = result.currentPly,
                   !.returned = IF result.returned THEN "true" ELSE "false"]

NavigatorOnly ==
    UNCHANGED <<bank, session, last, calc, fresh, snapshot, page, storage, committed>>

\* new MoveNavigator(game) and new MoveNavigator(game, startingPly)
InitNavigator ==
    /\ bank = HostBank
    /\ session = initializeSession
    /\ last = NoCall
    /\ calc = NoCalc
    /\ fresh = NoFresh
    /\ snapshot = NoSnapshot
    /\ page = NoPage
    /\ storage = NoStorage
    /\ committed = {}
    /\ \E moveCount \in MoveCounts : \E startingPly \in PlyArguments(moveCount) :
          viewer = [NoViewer EXCEPT !.moveCount = moveCount,
                                    !.navigator = Num(startingPly),
                                    !.argument  = Num(startingPly),
                                    !.op        = "constructor"]

callNext ==
    /\ viewer' = called("next", Num(-1), navigatorNext(viewer.navigator, viewer.moveCount))
    /\ NavigatorOnly

callPrevious ==
    /\ viewer' = called("previous", Num(-1),
                        navigatorPrevious(viewer.navigator, viewer.moveCount))
    /\ NavigatorOnly

callFirst ==
    /\ viewer' = called("first", Num(-1),
                        navigatorFirst(viewer.navigator, viewer.moveCount))
    /\ NavigatorOnly

callLast ==
    /\ viewer' = called("last", Num(-1), navigatorLast(viewer.navigator, viewer.moveCount))
    /\ NavigatorOnly

callGoToMove ==
    /\ \E ply \in PlyArguments(viewer.moveCount) :
          viewer' = called("goToMove", Num(ply),
                           navigatorGoToMove(viewer.navigator, viewer.moveCount, Num(ply)))
    /\ NavigatorOnly

callNavigatorReset ==
    /\ viewer' = [called("reset", Num(-1),
                         navigatorReset(viewer.navigator, viewer.moveCount))
                    EXCEPT !.returned = "none"]
    /\ NavigatorOnly

NextNavigator ==
    \/ callNext
    \/ callPrevious
    \/ callFirst
    \/ callLast
    \/ callGoToMove
    \/ callNavigatorReset

SpecNavigator == InitNavigator /\ [][NextNavigator]_vars

(***************************************************************************)
(* pages/GameViewer.tsx.  The 'move' parameter of the URL is a text, held  *)
(* as its sequence of characters, or absent.  The load effect builds the   *)
(* game and a navigator at parseInt(moveParam, 10) and runs again whenever *)
(* the parameter changes, which every handler that moves also causes       *)
(* through updateURL.  The handlers are bound to the keyboard as well as   *)
(* to the buttons, so a disabled button stops none of them.                *)
(***************************************************************************)
DecimalDigits == <<"0", "1", "2", "3", "4", "5", "6", "7", "8", "9">>

IsDigit(c) == \E d \in 1..10 : DecimalDigits[d] = c

DigitValue(c) == (CHOOSE d \in 1..10 : DecimalDigits[d] = c) - 1

RECURSIVE SkipSpaces(_, _)
\* the position of the first character from i on that is not a space
SkipSpaces(text, i) ==
    IF i <= Len(text) /\ text[i] = " " THEN SkipSpaces(text, i + 1) ELSE i

RECURSIVE ReadDigits(_, _, _, _)
\* the digits from position i on: how many there are and their value
ReadDigits(text, i, count, value) ==
    IF i <= Len(text) /\ IsDigit(text[i])
    THEN ReadDigits(text, i + 1, count + 1, 10 * value + DigitValue(text[i]))
    ELSE [count |-> count, value |-> value]

\* parseInt(text, 10): leading spaces, a sign, then digits up to the first
\* other character; NaN when there is no digit there
parseInt(text) ==
    LET start  == SkipSpaces(text, 1)
        signed == start <= Len(text) /\ text[start] \in {"-", "+"}
        digits == ReadDigits(text, IF signed THEN start + 1 ELSE start, 0, 0)
    IN  IF digits.count = 0 THEN NaN
        ELSE IF signed /\ text[start] = "-" THEN Num(0 - digits.value)
        ELSE Num(digits.value)

RECURSIVE Decimal(_)
\* n.toString() for an integer n >= 0
Decimal(n) ==
    IF n < 10 THEN <<DecimalDigits[n + 1]>>
    ELSE Decimal(n \div 10) \o <<DecimalDigits[(n % 10) + 1]>>

\* const initialPly = moveParam ? parseInt(moveParam, 10) : -1
initialPly(moveParam, moveCount) ==
    IF moveParam.present /\ moveParam.text # << >>
    THEN parseInt(moveParam.text) ELSE Num(-1)

\* the 'move' parameter after updateURL(newPly)
updateURL(newPly) ==
    IF NumGeq(newPly, Num(0))
    THEN [present |-> TRUE, text |-> Decimal(newPly.n)]
    ELSE NoItem

\* the page after a handler has left the navigator at navigatorPly and called
\* setCurrentPly(newPly) and updateURL(newPly): a changed parameter runs the
\* load effect again, which replaces the navigator
moved(op, argument, returned, navigatorPly, newPly) ==
    LET moveParam == updateURL(newPly)
        reloaded  == moveParam # viewer.moveParam
    IN  [viewer EXCEPT
           !.op         = op,
           !.argument   = argument,
           !.returned   = IF returned THEN "true" ELSE "false",
           !.before     = viewer.navigator,
           !.moveParam  = moveParam,
           !.navigator  = IF reloaded THEN initialPly(moveParam, viewer.moveCount)
                          ELSE navigatorPly,
           !.currentPly = IF reloaded THEN initialPly(moveParam, viewer.moveCount)
                          ELSE newPly]

\* a handler whose navigator call returned false
stayed(op) ==
    [viewer EXCEPT !.op = op, !.argument = Num(-1), !.returned = "false",
                   !.before = viewer.navigator]

\* longest 'move' parameter a visitor types
MaxParamLen == 2

ParamCharacters == {"-", "2", "9", "x", " "}

RECURSIVE TextsUpTo(_)
TextsUpTo(n) ==
    IF n = 0 THEN {<< >>}
    ELSE LET shorter == TextsUpTo(n - 1)
         IN  shorter \cup {Append(t, c) : t \in shorter, c \in ParamCharacters}

\* the page is opened on some game with some URL; nothing is loaded yet
InitViewer ==
    /\ bank = HostBank
    /\ session = initializeSession
    /\ last = NoCall
    /\ calc = NoCalc
    /\ fresh = NoFresh
    /\ snapshot = NoSnapshot
    /\ page = NoPage
    /\ storage = NoStorage
    /\ committed = {}
    /\ \E moveCount \in MoveCounts :
         \E moveParam \in {NoItem} \cup {[present |-> TRUE, text |-> t] :
                                           t \in TextsUpTo(MaxParamLen)} :
            viewer = [NoViewer EXCEPT !.moveCount = moveCount, !.moveParam = moveParam]

\* the load effect on mount
loadGame ==
    /\ ~viewer.loaded
    /\ viewer' = [viewer EXCEPT
                    !.loaded     = TRUE,
                    !.op         = "load",
                    !.navigator  = initialPly(viewer.moveParam, viewer.moveCount),
                    !.currentPly = initialPly(viewer.moveParam, viewer.moveCount)]
    /\ NavigatorOnly

handleNext ==
    /\ viewer.loaded
    /\ viewer' = LET r == navigatorNext(viewer.navigator, viewer.moveCount)
                 IN  IF r.returned
                     THEN moved("handleNext", Num(-1), TRUE, r.currentPly, r.currentPly)
                     ELSE stayed("handleNext")
    /\ NavigatorOnly

handlePrevious ==
    /\ viewer.loaded
    /\ viewer' = LET r == navigatorPrevious(viewer.navigator, viewer.moveCount)
                 IN  IF r.returned
                     THEN moved("handlePrevious", Num(-1), TRUE, r.currentPly, r.currentPly)
                     ELSE stayed("handlePrevious")
    /\ NavigatorOnly

handleFirst ==
    /\ viewer.loaded
    /\ viewer' = LET r == navigatorFirst(viewer.navigator, viewer.moveCount)
                 IN  IF r.returned
                     THEN moved("handleFirst", Num(-1), TRUE, r.currentPly, Num(-1))
                     ELSE stayed("handleFirst")
    /\ NavigatorOnly

handleLast ==
    /\ viewer.loaded
    /\ viewer' = LET r == navigatorLast(viewer.navigator, viewer.moveCount)
                 IN  IF r.returned
                     THEN moved("handleLast", Num(-1), TRUE, r.currentPly, r.currentPly)
                     ELSE stayed("handleLast")
    /\ NavigatorOnly

\* handleMoveClick(ply) for a move of the list: the result of goToMove is not
\* looked at
handleMoveClick ==
    /\ viewer.loaded
    /\ \E ply \in 0..(viewer.moveCount - 1) :
          viewer' = LET r == navigatorGoToMove(viewer.navigator, viewer.moveCount, Num(ply))
                    IN  moved("handleMoveClick", Num(ply), r.returned, r.currentPly,
                              Num(ply))
    /\ NavigatorOnly

\* handleSwitchSide: the URL keeps only the side, and the effect loads the
\* other side's game from its start
handleSwitchSide ==
    /\ viewer.loaded
    /\ \E moveCount \in MoveCounts :
          viewer' = [viewer EXCEPT !.op = "handleSwitchSide", !.argument = Num(-1),
                                   !.returned = "none", !.before = viewer.navigator,
                                   !.moveCount = moveCount, !.moveParam = NoItem,
                                   !.navigator = initialPly(NoItem, moveCount),
                                   !.currentPly = initialPly(NoItem, moveCount)]
    /\ NavigatorOnly

NextViewer ==
    \/ loadGame
    \/ handleNext
    \/ handlePrevious
    \/ handleFirst
    \/ handleLast
    \/ handleMoveClick
    \/ handleSwitchSide

SpecViewer == InitViewer /\ [][NextViewer]_vars

(***************************************************************************)
(* Properties.                                                             *)
(***************************************************************************)
Responses == session.responses

BankIds == {bank[i].id : i \in 1..Len(bank)}

\* the answer ids of the bank question(s) with this id
AnswerIdsOf(questionId) ==
    UNION {{bank[i].answers[k].id : k \in 1..Len(bank[i].answers)} :
              i \in {j \in 1..Len(bank) : bank[j].id = questionId}}

Labels == {"TJ", "TP", "FJ", "FP", "Neutral"}

\* the label the specification gives for totals (a, b)
ClaimLabel(a, b) ==
    IF a > -2 /\ a < 2 /\ b > -2 /\ b < 2 THEN "Neutral"
    ELSE IF a >= 0 THEN (IF b >= 0 THEN "TJ" ELSE "TP")
    ELSE (IF b >= 0 THEN "FJ" ELSE "FP")

\* C1: once the session is complete, every answerQuestion call, valid ids or
\* not, throws 'Quiz is already complete' and leaves the whole session
\* (responses, scores, confidence, isComplete, archetype) unchanged.
C1_RejectedAfterCompletion ==
    [][(session.isComplete /\ last'.op = "answerQuestion")
          => (last'.outcome = "Quiz is already complete" /\ session' = session)]_vars

C1_Witness ==
    /\ session.isComplete
    /\ last.op = "answerQuestion"
    /\ last.questionId \in BankIds
    /\ last.answerId \in AnswerIdsOf(last.questionId)
    /\ last.outcome = "Quiz is already complete"

\* C2: while the session is not complete, answerQuestion with a question id
\* outside the bank throws the question error, and with an answer id that is
\* not one of that question's own answers throws the answer error; both leave
\* the session unchanged.
C2_InvalidIdsRejected ==
    [][(~session.isComplete /\ last'.op = "answerQuestion")
          => /\ last'.questionId \notin BankIds
                  => (last'.outcome = "Question not found" /\ session' = session)
             /\ (last'.questionId \in BankIds
                    /\ last'.answerId \notin AnswerIdsOf(last'.questionId))
                  => (last'.outcome = "Answer not found" /\ session' = session)]_vars

\* an answer id of another question was offered for an unanswered question
C2_Witness ==
    /\ ~session.isComplete
    /\ Len(Responses) > 0
    /\ last.op = "answerQuestion"
    /\ last.outcome = "Answer not found"
    /\ last.answerId # Invalid

\* C3: after a successful answerQuestion the session is complete exactly when
\* it holds at least 10 responses, or at least 5 with confidence >= 80; a
\* session with fewer than 5 responses is never complete.
C3_CompleteIffLimitOrEarly ==
    /\ (last.op = "answerQuestion" /\ last.outcome = "ok")
          => (session.isComplete
                <=> (Len(Responses) >= 10
                       \/ (Len(Responses) >= 5 /\ session.confidence >= 80)))
    /\ session.isComplete => Len(Responses) >= 5

C3_Witness ==
    /\ last.op = "answerQuestion"
    /\ last.outcome = "ok"
    /\ session.isComplete
    /\ Len(Responses) = 5

\* C4: there are never more than 10 responses, a session with 10 responses is
\* complete, a session completed without the early-termination condition has
\* exactly 10 responses, and it carries the label of its totals (Neutral in
\* the dead zone).
C4_CompletesAtMaximum ==
    /\ Len(Responses) <= 10
    /\ Len(Responses) = 10 => session.isComplete
    /\ (session.isComplete /\ ~(Len(Responses) >= 5 /\ session.confidence >= 80))
          => Len(Responses) = 10
    /\ (session.isComplete /\ Len(Responses) = 10)
          => session.archetype
                = ClaimLabel(session.currentScoreTF, session.currentScoreJP)

C4_Witness ==
    /\ session.isComplete
    /\ Len(Responses) = 10
    /\ session.confidence < 80
    /\ session.currentScoreTF = 0
    /\ session.currentScoreJP = 0
    /\ session.archetype = "Neutral"

\* C5: shouldTerminateEarly() returns true exactly when there are at least 5
\* responses and confidence >= 80, and the call leaves the session unchanged.
C5_ShouldTerminateEarly ==
    [][last'.op = "shouldTerminateEarly"
          => /\ session' = session
             /\ last'.outcome = "true"
                  <=> (Len(Responses) >= 5 /\ session.confidence >= 80)]_vars

C5_Witness ==
    /\ last.op = "shouldTerminateEarly"
    /\ last.outcome = "true"
    /\ Len(Responses) >= 5
    /\ session.confidence >= 80

\* C6: the responses hold at most one response per question id.
C6_OneResponsePerQuestion ==
    \A i, j \in 1..Len(Responses) :
        i # j => Responses[i].questionId # Responses[j].questionId

\* C7: the archetype is absent while the session is not complete and one of
\* the five labels while it is.
C7_ArchetypeIffComplete ==
    /\ ~session.isComplete => getArchetype = "undefined"
    /\ session.isComplete => getArchetype \in Labels

C7_Witness ==
    /\ session.isComplete
    /\ getArchetype = "FP"

Min(a, b) == IF a < b THEN a ELSE b

\* round(100 * (0.7 * min(m / (4n), 1) + 0.3 * min(n / 10, 1))) in exact
\* arithmetic, halves rounded up, for magnitude m and n > 0 responses
ExactConfidence(m, n) ==
    (2 * (70 * Min(m, 4 * n) + 12 * n * Min(n, 10)) + 4 * n) \div (8 * n)

\* C8: calculateConfidence returns 0 for no responses and otherwise the
\* exactly rounded value of the formula, halves rounded up.
C8_ExactRounding ==
    calc.op = "calculateConfidence"
        => calc.confidence
             = IF calc.responseCount = 0 THEN 0
               ELSE ExactConfidence(Abs(calc.scoreTF) + Abs(calc.scoreJP),
                                    calc.responseCount)

\* C9: the label of totals (A, B) is Neutral exactly when |A| < 2 and |B| < 2,
\* and otherwise the quadrant of the signs, zero counting as positive.
C9_Classification ==
    calc.op = "determineArchetype"
        => /\ calc.archetype = ClaimLabel(calc.scoreTF, calc.scoreJP)
           /\ calc.archetype = "Neutral"
                <=> (Abs(calc.scoreTF) < 2 /\ Abs(calc.scoreJP) < 2)

\* decisive at exactly 2, and the total of 0 counts as the positive pole
C9_Witness ==
    /\ calc.op = "determineArchetype"
    /\ calc.scoreTF = 0
    /\ calc.scoreJP = -2
    /\ calc.archetype = "TP"

\* C10: a session completed with fewer than 10 responses has at least 5,
\* confidence >= 80 and one of the four quadrant labels, never Neutral.
C10_EarlyCompletionDecisive ==
    (session.isComplete /\ Len(Responses) < 10)
        => /\ Len(Responses) >= 5
           /\ session.confidence >= 80
           /\ session.archetype \in {"TJ", "TP", "FJ", "FP"}

\* five answers of weights (2,2): complete at the fifth, confidence 85, TJ
C10_Witness ==
    /\ session.isComplete
    /\ Len(Responses) = 5
    /\ session.currentScoreTF = 10
    /\ session.currentScoreJP = 10
    /\ session.confidence = 85
    /\ session.archetype = "TJ"

\* C11: a sequence of answerQuestion calls made after reset(), whatever the
\* engine did before, leaves after every call the totals, confidence,
\* completion flag and archetype of a fresh engine given the same calls, and
\* each call is accepted or rejected as on the fresh engine.
C11_ReplayAfterReset ==
    fresh.phase = "replay"
        => /\ session.currentScoreTF = fresh.session.currentScoreTF
           /\ session.currentScoreJP = fresh.session.currentScoreJP
           /\ session.confidence = fresh.session.confidence
           /\ session.isComplete = fresh.session.isComplete
           /\ session.archetype = fresh.session.archetype
           /\ last.op = "answerQuestion" => last.outcome = fresh.outcome

\* a session completed as TJ was reset, and the replay completed as Neutral
C11_Witness ==
    /\ fresh.phase = "replay"
    /\ fresh.before = "TJ"
    /\ session.isComplete
    /\ session.archetype = "Neutral"
    /\ last.op = "answerQuestion"
    /\ last.outcome = "ok"

\* C12: reset() never throws and, from an empty, a running or a complete
\* session alike, leaves no responses, totals 0, confidence 0, isComplete
\* false and no archetype (so a second reset changes nothing); the first
\* answerQuestion with valid ids after it is accepted.
C12_ResetToInitial ==
    [][/\ last'.op = "reset"
            => /\ last'.outcome = "ok"
               /\ session'.responses = << >>
               /\ session'.currentScoreTF = 0
               /\ session'.currentScoreJP = 0
               /\ session'.confidence = 0
               /\ ~session'.isComplete
               /\ session'.archetype = "undefined"
       /\ (last.op = "reset" /\ last'.op = "answerQuestion"
             /\ last'.questionId \in BankIds
             /\ last'.answerId \in AnswerIdsOf(last'.questionId))
            => (last'.outcome = "ok" /\ Len(session'.responses) = 1)]_vars

\* the engine right after a reset
C12_Witness ==
    /\ last.op = "reset"
    /\ Responses = << >>
    /\ ~session.isComplete
    /\ session.confidence = 0
    /\ getArchetype = "undefined"

\* the positions in the bank of the questions no recorded response names
Unanswered ==
    {i \in 1..Len(bank) :
        \A j \in 1..Len(Responses) : Responses[j].questionId # bank[i].id}

\* C13: in a session that is not complete (and not due to end early, the case
\* of C14), getNextQuestion() returns the question at the least position of
\* the bank that no recorded response names, and none when every question
\* of the bank has a response; it leaves the session as it is.
C13_FirstUnansweredInBankOrder ==
    [][(last'.op = "getNextQuestion" /\ ~session.isComplete
          /\ ~(Len(Responses) >= 5 /\ session.confidence >= 80))
         => /\ session' = session
            /\ IF Unanswered = {} THEN last'.questionId = "undefined"
               ELSE \E i \in Unanswered :
                        /\ \A k \in Unanswered : i <= k
                        /\ last'.questionId = bank[i].id]_vars

\* the second question was answered first and the first one is offered next
C13_Witness ==
    /\ last.op = "getNextQuestion"
    /\ ~session.isComplete
    /\ Len(Responses) > 0
    /\ \A j \in 1..Len(Responses) : Responses[j].questionId = bank[2].id
    /\ last.questionId = bank[1].id

\* the weights of the bank answer(s) with this id
WeightsOf(answerId) ==
    UNION {{<<bank[i].answers[k].scoreTF, bank[i].answers[k].scoreJP>> :
               k \in {n \in 1..Len(bank[i].answers) : bank[i].answers[n].id = answerId}} :
              i \in 1..Len(bank)}

RECURSIVE ResponseTotal(_, _, _)
\* the sum, over responses i.., of weight dim of the answer each names
\* (a response whose answer id no bank answer has adds nothing)
ResponseTotal(responses, dim, i) ==
    IF i > Len(responses) THEN 0
    ELSE (IF WeightsOf(responses[i].answerId) = {} THEN 0
          ELSE (CHOOSE w \in WeightsOf(responses[i].answerId) : TRUE)[dim])
         + ResponseTotal(responses, dim, i + 1)

\* C14: getNextQuestion() on a session that is not complete while
\* shouldTerminateEarly() holds (at least 5 responses, confidence >= 80)
\* completes the session, commits the label of the totals of the recorded
\* responses, keeps the responses and returns no question.
C14_NextQuestionForcesCompletion ==
    [][(last'.op = "getNextQuestion" /\ ~session.isComplete
          /\ Len(Responses) >= 5 /\ session.confidence >= 80)
         => /\ session'.isComplete
            /\ session'.archetype
                 = ClaimLabel(ResponseTotal(Responses, 1, 1),
                              ResponseTotal(Responses, 2, 1))
            /\ session'.responses = Responses
            /\ last'.questionId = "undefined"]_vars

\* four (2,2) answers and one response added by a caller through the value
\* getSession() returned: the stale confidence 82 ended the quiz in
\* getNextQuestion, which committed TJ with the recomputed confidence 71
C14_Witness ==
    /\ last.op = "getNextQuestion"
    /\ last.questionId = "undefined"
    /\ session.isComplete
    /\ Len(Responses) = 5
    /\ session.currentScoreTF = 8
    /\ session.confidence = 71
    /\ session.archetype = "TJ"

\* C20: a value getSession() returned is not changed by later answerQuestion,
\* getNextQuestion or reset calls, and writing to it does not change the
\* engine's session.
C20_GetSessionReturnsCopy ==
    [][/\ (snapshot.held /\ last'.op \in {"answerQuestion", "getNextQuestion", "reset"})
            => snapshot'.value = snapshot.value
       /\ last'.op \in {"returned.responses.push", "returned.confidence ="}
            => session' = session]_vars

\* C15: calculateConfidence returns an integer from 0 to 100 for every
\* response count and all totals, also when the totals exceed 2 per response
\* on both dimensions and when the count exceeds the maximum of 10.
C15_ConfidenceInRange ==
    calc.op = "calculateConfidence" => calc.confidence \in 0..100

\* totals of 20 on both dimensions after one response: the magnitude factor
\* saturates, 0.7 * 1 + 0.3 * 0.1 gives 73
C15_Witness ==
    /\ calc.op = "calculateConfidence"
    /\ calc.responseCount = 1
    /\ calc.scoreTF = 20
    /\ calc.scoreJP = -20
    /\ calc.confidence = 73

\* C17: getProgress() is round(100 * responses.length / 10), that is ten times
\* the number of responses, and lies between 0 and 100.
C17_ProgressPercentage ==
    /\ getProgress = 10 * Len(Responses)
    /\ getProgress \in 0..100

C17_Witness ==
    /\ Len(Responses) = 5
    /\ getProgress = 50

\* C16: an accepted answerQuestion adds one response with the given question
\* and answer id at the end of the list and keeps the earlier ones as they
\* were; a rejected answerQuestion, getNextQuestion and shouldTerminateEarly
\* leave the list alone; only reset empties it.
C16_ResponsesAppendOnly ==
    [][/\ (last'.op = "answerQuestion" /\ last'.outcome = "ok")
            => session'.responses
                 = Append(Responses, [questionId |-> last'.questionId,
                                      answerId   |-> last'.answerId])
       /\ (last'.op = "answerQuestion" /\ last'.outcome # "ok")
            => session'.responses = Responses
       /\ last'.op \in {"getNextQuestion", "shouldTerminateEarly"}
            => session'.responses = Responses
       /\ last'.op = "reset" => session'.responses = << >>]_vars

\* the third answer has just been recorded behind the first two
C16_Witness ==
    /\ last.op = "answerQuestion"
    /\ last.outcome = "ok"
    /\ Len(Responses) = 3
    /\ Responses[1].questionId = bank[1].id
    /\ Responses[2].questionId = bank[2].id
    /\ Responses[3] = [questionId |-> last.questionId, answerId |-> last.answerId]
    /\ Responses[3].questionId = bank[3].id

\* C18: when the page shows its result the engine's session is complete and
\* the archetype and confidence handed to the profile are the engine's
\* getArchetype() and getConfidence(); the page's responses are the engine's,
\* pair by pair.
C18_PageAgreesWithEngine ==
    /\ (page.isComplete /\ page.result.archetype # "null")
          => /\ session.isComplete
             /\ page.result = [archetype |-> getArchetype, confidence |-> getConfidence]
             /\ page.profile = page.result
    /\ page.responses = Responses

\* the page finished after five (2,2) answers and stored TJ with confidence 85
C18_Witness ==
    /\ page.isComplete
    /\ Len(page.responses) = 5
    /\ page.profile = [archetype |-> "TJ", confidence |-> 85]
    /\ session.isComplete
    /\ getConfidence = 85

\* the data contract of a bank: question ids unique, answer ids unique across
\* the bank, every weight from -2 to 2
ValidBank(questions) ==
    /\ \A i, j \in 1..Len(questions) :
          i # j => questions[i].id # questions[j].id
    /\ \A i, j \in 1..Len(questions) :
          \A k \in 1..Len(questions[i].answers), n \in 1..Len(questions[j].answers) :
             <<i, k>> # <<j, n>> => questions[i].answers[k].id # questions[j].answers[n].id
    /\ \A i \in 1..Len(questions) : \A k \in 1..Len(questions[i].answers) :
          /\ questions[i].answers[k].scoreTF \in -2..2
          /\ questions[i].answers[k].scoreJP \in -2..2

\* C19: a bank with a duplicate question id, an answer id used twice in the
\* bank or a weight outside -2..2 is rejected at construction, so no engine
\* holds such a bank.
C19_BankValidatedAtLoad == ValidBank(bank)

\* the stored texts that are not JSON, and those whose JSON is not a profile
BrokenTexts ==
    UnparsableTexts \cup NotAnObjectTexts \cup BadArchetypeTexts \cup NonNumericTexts

\* C21: loadPlayerProfile never raises; with no entry (or an empty one, which
\* getItem's caller reads as none) it returns null and leaves the storage as
\* it is; with an entry that is unparsable, has an archetype outside the five
\* labels or a non-numeric determinedAt or confidence it returns null and
\* removes the entry; a load that follows a load that returned null returns
\* null too.  (An entry the browser refuses to hand out cannot be judged and
\* is not covered by the removal.)
C21_LoadFailsOpen ==
    [][storage'.op = "loadPlayerProfile"
         => /\ ~storage'.raised
            /\ (~storage.item.present \/ storage.item.text = << >>)
                 => (storage'.returned = JSnull /\ storage'.item = storage.item)
            /\ (storage.mode # "denied" /\ storage.item.present
                  /\ storage.item.text \in BrokenTexts)
                 => (storage'.returned = JSnull /\ ~storage'.item.present)
            /\ (storage.op = "loadPlayerProfile" /\ storage.returned = JSnull)
                 => storage'.returned = JSnull]_vars

\* an entry naming the archetype INVALID was loaded: null, and the entry gone
C21_Witness ==
    /\ storage.op = "loadPlayerProfile"
    /\ storage.before.present
    /\ storage.before.text \in BadArchetypeTexts
    /\ Str("INVALID") \in {storage.before.text[i] : i \in 1..Len(storage.before.text)}
    /\ storage.returned = JSnull
    /\ ~storage.item.present
    /\ ~storage.raised

\* every recorded response names a (0,0) answer
AllNeutral ==
    \A i \in 1..Len(Responses) : WeightsOf(Responses[i].answerId) = {<<0, 0>>}

C23_NavigatorBounds ==
    [][LET M      == viewer.moveCount
           ply    == viewer.navigator.n
           newPly == viewer'.navigator.n
           p      == viewer'.argument.n
       IN  /\ ~viewer'.navigator.nan
           /\ viewer'.op = "next"
                => /\ ply >= M - 1 => (viewer'.returned = "false" /\ newPly = ply)
                   /\ viewer'.returned = "true" => newPly = ply + 1
           /\ viewer'.op = "previous"
                => /\ ply = -1 => (viewer'.returned = "false" /\ newPly = ply)
                   /\ viewer'.returned = "true" => newPly = ply - 1
           /\ viewer'.op = "goToMove"
                => IF -1 <= p /\ p <= M - 1
                   THEN viewer'.returned = "true" /\ newPly = p
                   ELSE viewer'.returned = "false" /\ newPly = ply]_vars

\* next() at the last ply of the six-ply game: false, and the ply is still 5
C23_Witness ==
    /\ viewer.op = "next"
    /\ viewer.moveCount = 6
    /\ viewer.before = Num(5)
    /\ viewer.navigator = Num(5)
    /\ viewer.returned = "false"

\* C30: once the viewer has built its navigator, the navigator's ply is an
\* integer from -1 to moveCount - 1, whatever the 'move' parameter of the URL
\* was and whichever handlers have run.
C30_ViewerPlyInRange ==
    viewer.loaded
        => /\ ~viewer.navigator.nan
           /\ viewer.navigator.n >= -1
           /\ viewer.navigator.n <= viewer.moveCount - 1

\* C24: from a complete session getNextQuestion() returns no question, and no
\* call but reset() changes anything of the session; a session changes only
\* by an accepted answer given while it is not complete, which adds one
\* response, or by reset(), which leaves the empty state.
C24_CompletedIsAbsorbing ==
    [][/\ session.isComplete
            => /\ last'.op = "getNextQuestion" => last'.questionId = "undefined"
               /\ last'.op # "reset" => session' = session
       /\ session' # session
            => \/ /\ last'.op = "answerQuestion"
                  /\ last'.outcome = "ok"
                  /\ ~session.isComplete
                  /\ Len(session'.responses) = Len(Responses) + 1
               \/ /\ last'.op = "reset"
                  /\ session'.responses = << >>
                  /\ session'.currentScoreTF = 0
                  /\ session'.currentScoreJP = 0
                  /\ session'.confidence = 0
                  /\ ~session'.isComplete
                  /\ session'.archetype = "undefined"]_vars

\* getNextQuestion() on a session completed early, five questions still
\* unanswered: no question, and the session as it was
C24_Witness ==
    /\ session.isComplete
    /\ Len(Responses) = 5
    /\ getArchetype = "TJ"
    /\ last.op = "getNextQuestion"
    /\ last.questionId = "undefined"

\* no answer id occurs twice in the bank
UniqueAnswerIds(questions) ==
    \A i, j \in 1..Len(questions) :
       \A k \in 1..Len(questions[i].answers), n \in 1..Len(questions[j].answers) :
          <<i, k>> # <<j, n>> => questions[i].answers[k].id # questions[j].answers[n].id

\* C25: over a bank whose answer ids are unique, the archetype of a complete
\* session is the label of its running totals currentScoreTF, currentScoreJP.
C25_CommittedLabelOfTotals ==
    (UniqueAnswerIds(bank) /\ session.isComplete)
        => getArchetype = ClaimLabel(session.currentScoreTF, session.currentScoreJP)

\* one answer of weight (3,0) among neutral ones: complete at ten responses
\* with totals (3,0), TJ
C25_Witness ==
    /\ UniqueAnswerIds(bank)
    /\ session.isComplete
    /\ Len(Responses) = 10
    /\ session.currentScoreTF = 3
    /\ session.currentScoreJP = 0
    /\ Responses[1].answerId = "q1a1"
    /\ getArchetype = "TJ"

\* C26: the confidence of the session is calculateConfidence of its running
\* totals and its number of responses: 0 in the empty state, recomputed by
\* every accepted answer, and not changed by the value written at completion.
C26_ConfidenceOfTotals ==
    /\ session.confidence
         = calculateConfidence(session.currentScoreTF, session.currentScoreJP,
                               Len(Responses))
    /\ Len(Responses) = 0 => session.confidence = 0

\* a session completed at its fifth (2,2) answer: confidence 85 before and
\* after the completion recomputed it
C26_Witness ==
    /\ session.isComplete
    /\ Len(Responses) = 5
    /\ session.currentScoreTF = 10
    /\ session.currentScoreJP = 10
    /\ session.confidence = 85
    /\ calculateConfidence(10, 10, 5) = 85

\* C27: the running totals are the sums of the weights of the answers the
\* responses name, unclamped: 0 without responses and, the weights of the
\* bank lying in -2..2, between -2N and 2N with N responses.
C27_TotalsAreSums ==
    /\ session.currentScoreTF = ResponseTotal(Responses, 1, 1)
    /\ session.currentScoreJP = ResponseTotal(Responses, 2, 1)
    /\ Len(Responses) = 0 => (session.currentScoreTF = 0 /\ session.currentScoreJP = 0)
    /\ Abs(session.currentScoreTF) <= 2 * Len(Responses)
    /\ Abs(session.currentScoreJP) <= 2 * Len(Responses)

\* the answers (-2,-2) and (2,-2), then three of (2,2): totals 6 and 2
C27_Witness ==
    /\ Len(Responses) = 5
    /\ Responses[1].answerId = AnswerId(1, 3)
    /\ Responses[2].answerId = AnswerId(2, 3)
    /\ session.currentScoreTF = 6
    /\ session.currentScoreJP = 2

\* C28: a session that is not complete never satisfies the early-termination
\* condition (5 or more responses with confidence >= 80); getNextQuestion()
\* leaves the session as it is, and a session becomes complete only in an
\* accepted answerQuestion.
C28_EarlyTerminationOnlyInAnswer ==
    [][/\ ~session'.isComplete
            => ~(Len(session'.responses) >= 5 /\ session'.confidence >= 80)
       /\ last'.op = "getNextQuestion" => session' = session
       /\ (~session.isComplete /\ session'.isComplete)
            => (last'.op = "answerQuestion" /\ last'.outcome = "ok")]_vars

\* getNextQuestion() after five neutral answers to the second question: not
\* complete, the first question offered
C28_Witness ==
    /\ last.op = "getNextQuestion"
    /\ last.questionId = bank[1].id
    /\ ~session.isComplete
    /\ Len(Responses) >= 5
    /\ session.confidence < 80

\* C29: in the host loop over a bank of 5 to 15 questions with unique ids the
\* session never holds more than MAXIMUM_QUESTIONS answers, and
\* getNextQuestion() gives no question only when the session is complete, so
\* the loop always ends in a complete session
C29_HostLoopEndsComplete ==
    /\ Len(session.responses) <= MAXIMUM_QUESTIONS
    /\ (last.op = "getNextQuestion" /\ last.questionId = "undefined")
            => session.isComplete

====
